---- MODULE Spec2Model ----
(***************************************************************************)
(* Replication-lag collector of blip (metrics/repl.lag/lag.go) and the     *)
(* plan model it is prepared against (plan.go).                            *)
(*                                                                         *)
(* One collector (Lag) is constructed by NewLag, prepared once against a   *)
(* plan (Prepare iterates plan.Levels, a Go map, in an arbitrary order),   *)
(* then Collect is called per level and the cleanup returned by Prepare is *)
(* called when the plan is retired.                                        *)
(***************************************************************************)
EXTENDS FiniteSets, Integers, Sequences, TLC

\* ---------------------------------------------------------------- bounds
\* Number of level names; a plan uses any subset of them.
NumLevels == 2

LevelNames == 1..NumLevels

\* ------------------------------------------------------------- constants
LAG_WRITER_BLIP == "blip"
LAG_WRITER_PFS == "pfs"

\* Values of the writer option a plan may carry ("" is the unset option,
\* "legacy" stands for any value that is none of auto, pfs, blip).
WriterValues == {"", "auto", LAG_WRITER_PFS, LAG_WRITER_BLIP, "legacy"}

\* blip.Bool: true for the affirmative strings, false for everything else.
Bool(s) == s \in {"true", "yes", "enable", "enabled"}

\* sqlutil.CleanObjectName: strips quoting characters from an identifier.
CleanObjectName(o) ==
    CASE o = "ro;" -> "ro"
      [] OTHER -> o

\* ------------------------------------------------------------ plan model
\* The options of the repl.lag domain besides writer, as the plans carry
\* them ("" is the unset option): nothing set; not-a-replica dropped
\* explicitly, a missing heartbeat reported, a replica check given; or
\* not-a-replica reported, a missing heartbeat dropped explicitly.
\* The network-latency option is a string (a sequence of characters) that
\* the options map holds (ok) or does not hold.
NoLatency == [ok |-> FALSE, s |-> <<>>]
Latency(str) == [ok |-> TRUE, s |-> str]

NoOptions ==
    [writer |-> "", reportNotAReplica |-> "", reportNoHeartbeat |-> "",
     replCheck |-> "", networkLatency |-> NoLatency]

OptionProfiles ==
    {NoOptions,
     [NoOptions EXCEPT !.reportNotAReplica = "no",
                       !.reportNoHeartbeat = "yes",
                       !.replCheck = "ro;",
                       !.networkLatency = Latency(<<"1", "0", "0">>)],
     [NoOptions EXCEPT !.reportNotAReplica = "yes",
                       !.reportNoHeartbeat = "no"]}

\* Domain.Options of the repl.lag domain in one level.
OptionSets ==
    {[o EXCEPT !.writer = w] : o \in OptionProfiles, w \in WriterValues}

\* A level name that is not a key of plan.Levels.
AbsentLevel == [inPlan |-> FALSE, hasDomain |-> FALSE, Options |-> NoOptions]

\* A level of the plan whose Collect map has no repl.lag entry.
OtherLevel == [inPlan |-> TRUE, hasDomain |-> FALSE, Options |-> NoOptions]

\* Level: what plan.Levels holds under one level name.
Level ==
    {AbsentLevel, OtherLevel} \cup
    [inPlan: {TRUE}, hasDomain: {TRUE}, Options: OptionSets]

\* Plan: plan.Levels as a function of the level name.
Plan == [LevelNames -> Level]

\* ------------------------------------------------------------------ state
VARIABLES
    plan,        \* the plan handed to Prepare (blip.Plan.Levels)
    hbTable,     \* environment: TRUE iff the heartbeat table is reachable
    pc,          \* "new", "prepare", "ready", "failed", "retired", "panic"
    todo,        \* Prepare: level names the range loop has not visited yet
    configured,  \* Prepare: local variable configured
    cleanup,     \* Prepare: local variable cleanup ("nil" or "stop")
    ret,         \* what Prepare returned: [cleanup, err]
    probe,       \* per level: outcome of collectPFSv2 run by Prepare
    c,           \* the Lag struct
    readers,     \* heartbeat readers constructed so far (their arguments)
    running,     \* indices of readers whose Start task runs (not stopped)
    out,         \* the last Collect call: [level, sample, metrics, err]
    prev,        \* how an earlier Prepare on another collector ended
    interp       \* a plan under interpolation: [pass, orig, plan]

vars == <<plan, hbTable, pc, todo, configured, cleanup, ret, probe, c,
          readers, running, out, prev, interp>>

\* The values of error results ("nil" is the nil error).
ErrNil == "nil"
ErrProbe == "probe"             \* error returned by collectPFSv2
ErrConflict == "conflict"       \* "different writer configuration: ..."
ErrAutoDetect == "auto-detect"  \* "failed to auto-detect source, set ..."
ErrInvalid == "invalid"         \* "invalid lag writer: ..."
ErrSample == "sample"           \* error of a query or of lagReader.Lag

\* The sample of a call that reads nothing from the outside.
NoSample ==
    [kind |-> "none", failed |-> "", Replica |-> TRUE, Valid |-> TRUE,
     Numeric |-> TRUE, Milliseconds |-> 0]

\* No Collect call has been made yet.
NoOut ==
    [level |-> 0, via |-> "none", sample |-> NoSample, reader |-> 0,
     metrics |-> <<>>, err |-> ErrNil]

\* No Prepare has been run before this one.
NoPrev ==
    [run |-> FALSE, ok |-> FALSE,
     lagWriterIn |-> [l \in LevelNames |-> ""],
     probe |-> [l \in LevelNames |-> "none"]]

\* No plan is under interpolation.
NoInterp == [pass |-> "none", orig |-> <<>>, plan |-> <<>>]

\* NewLag: empty maps (a missing key reads as "" or false), no reader.
\* The map renameDefaultReplicationChannel is written by Prepare and read
\* nowhere in lag.go; it is not part of the state.
NewLag ==
    [lagReader |-> 0,
     lagWriterIn |-> [l \in LevelNames |-> ""],
     dropNoHeartbeat |-> [l \in LevelNames |-> FALSE],
     dropNotAReplica |-> [l \in LevelNames |-> FALSE],
     replCheck |-> ""]

Init ==
    /\ plan \in Plan
    /\ hbTable \in BOOLEAN
    /\ pc = "new"
    /\ todo = {}
    /\ configured = ""
    /\ cleanup = "nil"
    /\ ret = [cleanup |-> "nil", err |-> ErrNil]
    /\ probe = [l \in LevelNames |-> "none"]
    /\ c = NewLag
    /\ readers = <<>>
    /\ running = {}
    /\ out = NoOut
    /\ prev = NoPrev
    /\ interp = NoInterp

\* ------------------------------------------------------------ prepareBlip
\* The decimal digits and their values.
Digits == {"0", "1", "2", "3", "4", "5", "6", "7", "8", "9"}

DigitValue(ch) ==
    CASE ch = "0" -> 0 [] ch = "1" -> 1 [] ch = "2" -> 2 [] ch = "3" -> 3
      [] ch = "4" -> 4 [] ch = "5" -> 5 [] ch = "6" -> 6 [] ch = "7" -> 7
      [] ch = "8" -> 8 [] ch = "9" -> 9

RECURSIVE DecimalValue(_)
DecimalValue(str) ==
    IF str = <<>> THEN 0
    ELSE 10 * DecimalValue(SubSeq(str, 1, Len(str) - 1))
         + DigitValue(str[Len(str)])

\* strconv.Atoi: an optional sign, then one or more decimal digits;
\* anything else is an error.
Atoi(str) ==
    LET signed == str # <<>> /\ str[1] \in {"+", "-"}
        body == IF signed THEN Tail(str) ELSE str
    IN
    IF body = <<>> \/ \E i \in 1..Len(body) : body[i] \notin Digits
    THEN [err |-> TRUE, n |-> 0]
    ELSE [err |-> FALSE,
          n |-> IF signed /\ str[1] = "-" THEN 0 - DecimalValue(body)
                ELSE DecimalValue(body)]

\* The default network latency, in milliseconds.
DefaultNetLatency == 50

\* netLatency taking the zero value of n when the option does not parse.
netLatencyZeroOnError(options) ==
    IF options.networkLatency.ok
    THEN Atoi(options.networkLatency.s).n
    ELSE DefaultNetLatency

\* netLatency of prepareBlip, in milliseconds: the default, replaced by the
\* option when the option is set and parses.  (The values used here stay far
\* from the range of time.Duration.)
netLatency(options) ==
    IF options.networkLatency.ok /\ ~Atoi(options.networkLatency.s).err
    THEN Atoi(options.networkLatency.s).n
    ELSE DefaultNetLatency

\* The arguments NewBlipReader is called with (ReplCheck and the network
\* latency of the waiter), and the level whose prepareBlip call made it.
BlipReaderArgs(levelName, options) ==
    [Level |-> levelName, ReplCheck |-> c.replCheck,
     NetworkLatency |-> netLatency(options)]

\* prepareBlip without the "c.lagReader != nil" early return: a reader is
\* constructed and started on every call.
prepareBlipEveryCall(levelName, options) ==
    LET r == Len(readers) + 1 IN
    [cleanup |-> "stop", err |-> ErrNil,
     c |-> [c EXCEPT
              !.dropNoHeartbeat[levelName] =
                  ~Bool(options.reportNoHeartbeat),
              !.lagReader = r,
              !.lagWriterIn[levelName] = LAG_WRITER_BLIP],
     readers |-> Append(readers, BlipReaderArgs(levelName, options)),
     running |-> running \cup {r}]

\* The result of prepareBlip: its two return values and the collector,
\* reader list and running tasks it leaves behind.  The heartbeat table is
\* not consulted (hbTable is not read): nothing here returns an error.
prepareBlip(levelName, options) ==
    IF c.lagReader # 0
    THEN [cleanup |-> "nil", err |-> ErrNil, c |-> c,
          readers |-> readers, running |-> running]
    ELSE LET r == Len(readers) + 1 IN
         [cleanup |-> "stop", err |-> ErrNil,
          c |-> [c EXCEPT
                   !.dropNoHeartbeat[levelName] =
                       ~Bool(options.reportNoHeartbeat),
                   !.lagReader = r,
                   !.lagWriterIn[levelName] = LAG_WRITER_BLIP],
          readers |-> Append(readers, BlipReaderArgs(levelName, options)),
          running |-> running \cup {r}]

\* ---------------------------------------------------------------- Prepare
\* Does the loop body run collectPFSv2 for a level with this writer?
Probes(writer) ==
    configured = "" /\ writer \in {LAG_WRITER_PFS, "auto", ""}

\* Lines 223-227: the level is recorded after the switch.
recordLevel(cc, levelName, writer, options) ==
    [cc EXCEPT
       !.lagWriterIn[levelName] = writer,
       !.dropNotAReplica[levelName] = ~Bool(options.reportNotAReplica),
       !.replCheck = CleanObjectName(options.replCheck)]

\* The loop goes on to the next level.
continueLevel(cl, cc, rd, rn) ==
    [pc |-> "prepare", cleanup |-> cl, ret |-> ret, c |-> cc,
     readers |-> rd, running |-> rn]

\* "return nil, e": Prepare ends with the nil cleanup and the error e.
returnError(e, cl, cc, rd, rn) ==
    [pc |-> "failed", cleanup |-> cl,
     ret |-> [cleanup |-> "nil", err |-> e], c |-> cc,
     readers |-> rd, running |-> rn]

\* casePFS reporting a failed probe as the auto-detect error.
casePFSAutoDetectError(levelName, options, probeOK) ==
    IF ~probeOK
    THEN returnError(ErrAutoDetect, cleanup, c, readers, running)
    ELSE continueLevel(cleanup,
             recordLevel(c, levelName, LAG_WRITER_PFS, options),
             readers, running)

\* case LAG_WRITER_PFS: the probe's error ends Prepare, else the level is
\* recorded with the writer pfs.
casePFS(levelName, options, probeOK) ==
    IF ~probeOK
    THEN returnError(ErrProbe, cleanup, c, readers, running)
    ELSE continueLevel(cleanup,
             recordLevel(c, levelName, LAG_WRITER_PFS, options),
             readers, running)

\* case LAG_WRITER_BLIP: cleanup and err are assigned from prepareBlip.
caseBlip(levelName, options) ==
    LET pb == prepareBlip(levelName, options) IN
    IF pb.err # ErrNil
    THEN returnError(pb.err, pb.cleanup, pb.c, pb.readers, pb.running)
    ELSE continueLevel(pb.cleanup,
             recordLevel(pb.c, levelName, LAG_WRITER_BLIP, options),
             pb.readers, pb.running)

\* caseAuto setting up the heartbeat reader whatever the probe said.
caseAutoHeartbeatAlways(levelName, options, probeOK) ==
    LET pb == prepareBlip(levelName, options) IN
    IF pb.err = ErrNil
    THEN continueLevel(pb.cleanup,
             recordLevel(pb.c, levelName, LAG_WRITER_BLIP, options),
             pb.readers, pb.running)
    ELSE returnError(ErrAutoDetect, pb.cleanup, pb.c, pb.readers,
                     pb.running)

\* caseAuto returning the probe's error instead of falling through.
caseAutoPropagate(levelName, options, probeOK) ==
    IF probeOK
    THEN continueLevel(cleanup,
             recordLevel(c, levelName, LAG_WRITER_PFS, options),
             readers, running)
    ELSE returnError(ErrProbe, cleanup, c, readers, running)

\* caseAuto recording the writer option as given instead of the detected
\* writer.
caseAutoRecordsOption(levelName, options, probeOK) ==
    LET pb == prepareBlip(levelName, options) IN
    IF probeOK
    THEN continueLevel(cleanup,
             recordLevel(c, levelName, options.writer, options),
             readers, running)
    ELSE IF pb.err = ErrNil
    THEN continueLevel(pb.cleanup,
             recordLevel(pb.c, levelName, options.writer, options),
             pb.readers, pb.running)
    ELSE returnError(ErrAutoDetect, pb.cleanup, pb.c, pb.readers,
                     pb.running)

\* caseAuto taking the heartbeat strategy without probing when a reader
\* exists already.
caseAutoReuseReader(levelName, options, probeOK) ==
    LET pb == prepareBlip(levelName, options) IN
    IF probeOK /\ c.lagReader = 0
    THEN continueLevel(cleanup,
             recordLevel(c, levelName, LAG_WRITER_PFS, options),
             readers, running)
    ELSE IF pb.err = ErrNil
    THEN continueLevel(pb.cleanup,
             recordLevel(pb.c, levelName, LAG_WRITER_BLIP, options),
             pb.readers, pb.running)
    ELSE returnError(ErrAutoDetect, pb.cleanup, pb.c, pb.readers,
                     pb.running)

\* case "auto", "": the probe first; when it fails, prepareBlip, whose
\* result is assigned to cleanup and err.
caseAuto(levelName, options, probeOK) ==
    LET pb == prepareBlip(levelName, options) IN
    IF probeOK
    THEN continueLevel(cleanup,
             recordLevel(c, levelName, LAG_WRITER_PFS, options),
             readers, running)
    ELSE IF pb.err = ErrNil
    THEN continueLevel(pb.cleanup,
             recordLevel(pb.c, levelName, LAG_WRITER_BLIP, options),
             pb.readers, pb.running)
    ELSE returnError(ErrAutoDetect, pb.cleanup, pb.c, pb.readers,
                     pb.running)

\* One iteration of the LEVEL loop for levelName; probeOK is the outcome of
\* collectPFSv2 where the iteration runs it.
levelBody(levelName, probeOK) ==
    LET level == plan[levelName]
        options == level.Options
        writer == options.writer
    IN
    IF ~level.hasDomain
    THEN continueLevel(cleanup, c, readers, running)
    ELSE IF configured # ""
    THEN IF configured # writer
         THEN returnError(ErrConflict, cleanup, c, readers, running)
         ELSE continueLevel(cleanup,
                            [c EXCEPT !.lagWriterIn[levelName] = writer],
                            readers, running)
    ELSE CASE writer = LAG_WRITER_PFS -> casePFS(levelName, options, probeOK)
           [] writer = LAG_WRITER_BLIP -> caseBlip(levelName, options)
           [] writer \in {"auto", ""} ->
                caseAuto(levelName, options, probeOK)
           [] OTHER ->
                returnError(ErrInvalid, cleanup, c, readers, running)

\* The outcomes collectPFSv2 can have for a level: the target answers as
\* it did when an earlier Prepare probed for the same level.
ProbeOutcomes(levelName) ==
    IF prev.probe[levelName] = "none" THEN BOOLEAN
    ELSE {prev.probe[levelName] = "ok"}

\* Prepare is entered: the locals are initialised and the range over
\* plan.Levels begins.
PrepareBegin ==
    /\ pc = "new"
    /\ pc' = "prepare"
    /\ todo' = {l \in LevelNames : plan[l].inPlan}
    /\ configured' = ""
    /\ cleanup' = "nil"
    /\ UNCHANGED <<prev, interp, plan, hbTable, ret, probe, c, readers, running, out>>

\* One iteration of "for levelName, level := range plan.Levels": the map
\* yields its keys once each, in any order.
PrepareLevel(levelName) ==
    /\ pc = "prepare"
    /\ levelName \in todo
    /\ LET doProbe == plan[levelName].hasDomain
                        /\ Probes(plan[levelName].Options.writer)
       IN \E probeOK \in (IF doProbe THEN ProbeOutcomes(levelName)
                           ELSE {TRUE}) :
            LET n == levelBody(levelName, probeOK) IN
            /\ pc' = n.pc
            /\ cleanup' = n.cleanup
            /\ ret' = n.ret
            /\ c' = n.c
            /\ readers' = n.readers
            /\ running' = n.running
            /\ probe' = IF doProbe
                        THEN [probe EXCEPT ![levelName] =
                                 IF probeOK THEN "ok" ELSE "fail"]
                        ELSE probe
    /\ todo' = todo \ {levelName}
    /\ UNCHANGED <<prev, interp, plan, hbTable, configured, out>>

\* "return cleanup, nil" after the loop.
PrepareReturn ==
    /\ pc = "prepare"
    /\ todo = {}
    /\ pc' = "ready"
    /\ ret' = [cleanup |-> cleanup, err |-> ErrNil]
    /\ UNCHANGED <<prev, interp, plan, hbTable, todo, configured, cleanup, probe, c,
                   readers, running, out>>

\* ---------------------------------------------------------------- Collect
\* Lag values a sample may carry (-1: no heartbeat observed yet).
LagValues == {-1, 7}

\* What one Collect call reads from the outside.  For the heartbeat
\* strategy it is the result of lagReader.Lag: failed = "lag" is its error,
\* else Replica and Milliseconds are the fields of heartbeat.Lag.  For the
\* performance-schema strategy it is the outcome of the two queries:
\* failed = "check" or "query" is the error of the first or second query,
\* Replica is "isRepl # 0", Valid is lagValue.Valid, Numeric says whether
\* lagValue.String converts to a float, Milliseconds is that float.
BlipSamples ==
    {[NoSample EXCEPT !.kind = "blip", !.failed = "lag"]} \cup
    {[NoSample EXCEPT !.kind = "blip", !.Replica = r, !.Milliseconds = m] :
        r \in BOOLEAN, m \in LagValues}

\* The replica check is queried only when replCheck is set.
PFSSamples(rc) ==
    (IF rc = "" THEN {}
     ELSE {[NoSample EXCEPT !.kind = "pfs", !.failed = "check"],
           [NoSample EXCEPT !.kind = "pfs", !.Replica = FALSE]}) \cup
    {[NoSample EXCEPT !.kind = "pfs", !.failed = "query"],
     [NoSample EXCEPT !.kind = "pfs", !.Valid = FALSE],
     [NoSample EXCEPT !.kind = "pfs", !.Numeric = FALSE]} \cup
    {[NoSample EXCEPT !.kind = "pfs", !.Milliseconds = m] :
        m \in LagValues \ {-1}}

\* blip.MetricValue; source is Meta["source"] ("" when there is no Meta).
MetricValue(value, source) ==
    [Name |-> "current", Type |-> "GAUGE", Value |-> value,
     source |-> source]

\* The source id the heartbeat reader reports.
SourceId == "source1"

\* A result of Collect: the metrics, the error, or a panic.
result(metrics, e) == [metrics |-> metrics, err |-> e, panic |-> FALSE]
fatal == [metrics |-> <<>>, err |-> ErrNil, panic |-> TRUE]

collectBlip(levelName, s) ==
    IF c.lagReader = 0 THEN fatal   \* method call on the nil interface
    ELSE IF s.failed # "" THEN result(<<>>, ErrSample)
    ELSE IF ~s.Replica /\ c.dropNotAReplica[levelName]
    THEN result(<<>>, ErrNil)
    ELSE IF s.Replica /\ s.Milliseconds = -1 /\ c.dropNoHeartbeat[levelName]
    THEN result(<<>>, ErrNil)
    ELSE result(<<MetricValue(s.Milliseconds, SourceId)>>, ErrNil)

collectPFS(levelName, s) ==
    LET defaultLag == IF c.dropNotAReplica[levelName] THEN <<>>
                      ELSE <<MetricValue(-1, "")>>
    IN
    IF c.replCheck # "" /\ s.failed = "check" THEN result(<<>>, ErrSample)
    ELSE IF c.replCheck # "" /\ ~s.Replica THEN result(defaultLag, ErrNil)
    ELSE IF s.failed = "query" THEN result(<<>>, ErrSample)
    ELSE IF ~s.Valid
    THEN IF c.replCheck = "" THEN result(defaultLag, ErrNil)
         ELSE result(<<>>, ErrSample)
    ELSE IF ~s.Numeric THEN result(<<>>, ErrSample)
    ELSE result(<<MetricValue(s.Milliseconds, "")>>, ErrNil)

\* The strategy of section 4.4 as Collect calls it.
collectPFSv2(levelName, s) == collectPFS(levelName, s)

\* The samples a Collect call for levelName can read.
SamplesFor(levelName) ==
    CASE c.lagWriterIn[levelName] = LAG_WRITER_BLIP -> BlipSamples
      [] c.lagWriterIn[levelName] = LAG_WRITER_PFS -> PFSSamples(c.replCheck)
      [] OTHER -> {NoSample}

\* collectSwitch returning an ordinary error for a level without a writer.
collectSwitchErrorReturn(levelName, s) ==
    CASE c.lagWriterIn[levelName] = LAG_WRITER_BLIP ->
            [via |-> LAG_WRITER_BLIP, res |-> collectBlip(levelName, s)]
      [] c.lagWriterIn[levelName] = LAG_WRITER_PFS ->
            [via |-> LAG_WRITER_PFS, res |-> collectPFSv2(levelName, s)]
      [] OTHER -> [via |-> "error", res |-> result(<<>>, ErrInvalid)]

\* The switch of Collect: which strategy serves the level, and its result.
collectSwitch(levelName, s) ==
    CASE c.lagWriterIn[levelName] = LAG_WRITER_BLIP ->
            [via |-> LAG_WRITER_BLIP, res |-> collectBlip(levelName, s)]
      [] c.lagWriterIn[levelName] = LAG_WRITER_PFS ->
            [via |-> LAG_WRITER_PFS, res |-> collectPFSv2(levelName, s)]
      [] OTHER -> [via |-> "panic", res |-> fatal]

\* Collect dropping the reader handle when the sample fails.
CollectDropsReader(levelName) ==
    /\ pc = "ready"
    /\ \E s \in SamplesFor(levelName) :
         LET r == collectSwitch(levelName, s) IN
         /\ out' = [level |-> levelName, via |-> r.via, sample |-> s,
                    reader |-> IF r.via = LAG_WRITER_BLIP
                               THEN c.lagReader ELSE 0,
                    metrics |-> r.res.metrics, err |-> r.res.err]
         /\ pc' = IF r.res.panic THEN "panic" ELSE pc
         /\ c' = IF r.res.err # ErrNil THEN [c EXCEPT !.lagReader = 0]
                 ELSE c
    /\ UNCHANGED <<prev, interp, plan, hbTable, todo, configured, cleanup, ret, probe,
                   readers, running>>

\* Collect(ctx, levelName), called once Prepare has returned without error,
\* for any level name.
Collect(levelName) ==
    /\ pc = "ready"
    /\ \E s \in SamplesFor(levelName) :
         LET r == collectSwitch(levelName, s) IN
         /\ out' = [level |-> levelName, via |-> r.via, sample |-> s,
                    reader |-> IF r.via = LAG_WRITER_BLIP
                               THEN c.lagReader ELSE 0,
                    metrics |-> r.res.metrics, err |-> r.res.err]
         /\ pc' = IF r.res.panic THEN "panic" ELSE pc
    /\ UNCHANGED <<prev, interp, plan, hbTable, todo, configured, cleanup, ret, probe, c,
                   readers, running>>

\* The caller retires the plan: it calls the cleanup Prepare returned, if
\* there is one; the closure stops the reader c.lagReader then holds.
Cleanup ==
    /\ pc = "ready"
    /\ pc' = "retired"
    /\ running' = IF ret.cleanup = "stop" THEN running \ {c.lagReader}
                  ELSE running
    /\ UNCHANGED <<prev, interp, plan, hbTable, todo, configured, cleanup, ret, probe, c,
                   readers, out>>

Next ==
    \/ PrepareBegin
    \/ \E levelName \in LevelNames : PrepareLevel(levelName)
    \/ PrepareReturn
    \/ \E levelName \in LevelNames : Collect(levelName)
    \/ Cleanup

Spec == Init /\ [][Next]_vars

\* ------------------------------------------------------- a second Prepare
\* After Prepare has returned, a new collector is made by NewLag and
\* prepared against the same plan and the same target; how the first
\* Prepare ended is kept for comparison.  The first collector's reader, if
\* any, is not touched.
Restart ==
    /\ pc \in {"ready", "failed"}
    /\ ~prev.run
    /\ prev' = [run |-> TRUE, ok |-> (pc = "ready"),
                lagWriterIn |-> c.lagWriterIn, probe |-> probe]
    /\ pc' = "new"
    /\ todo' = {}
    /\ configured' = ""
    /\ cleanup' = "nil"
    /\ ret' = [cleanup |-> "nil", err |-> ErrNil]
    /\ probe' = [l \in LevelNames |-> "none"]
    /\ c' = NewLag
    /\ UNCHANGED <<interp, plan, hbTable, readers, running, out>>

NextRerun ==
    \/ PrepareBegin
    \/ \E levelName \in LevelNames : PrepareLevel(levelName)
    \/ PrepareReturn
    \/ Restart

SpecRerun == Init /\ [][NextRerun]_vars

\* ---------------------------------------------------------- interpolation
\* Plan.Levels, Level.Collect and Domain.Options are maps: functions on the
\* set of their keys.
DomainNames == {"repl.lag", "status.global"}
OptionKeys == {"writer", "table"}

\* Option values before interpolation: a literal, two environment
\* placeholders and a monitor placeholder.
OptionValues == {"blip", "${E}", "${E2}", "%{monitor.id}"}

\* interpolateEnv: the environment has E = "%{monitor.id}" and
\* E2 = "${E}"; other text is left as it is.
interpolateEnv(v) ==
    CASE v = "${E}" -> "%{monitor.id}"
      [] v = "${E2}" -> "${E}"
      [] OTHER -> v

\* mon.interpolateMon: the monitor has id "m1"; other text is left as it is.
interpolateMon(v) ==
    CASE v = "%{monitor.id}" -> "m1"
      [] OTHER -> v

\* The option maps: any set of keys with any values.
OptionMaps == UNION {[K -> OptionValues] : K \in SUBSET OptionKeys}

\* The domains a level can hold under the name d: repl.lag with any
\* options, status.global with no options and a metric list.
DomainsNamed(d) ==
    IF d = "repl.lag"
    THEN {[Name |-> d, Options |-> o, Metrics |-> <<>>] : o \in OptionMaps}
    ELSE {[Name |-> d, Options |-> <<>>,
           Metrics |-> <<"queries", "threads_running">>]}

CollectMaps ==
    UNION {{f \in [D -> UNION {DomainsNamed(d) : d \in D}] :
               \A d \in D : f[d].Name = d} : D \in SUBSET DomainNames}

InterpLevel == [Freq : {"5s"}, Collect : CollectMaps]

InterpPlans == UNION {[S -> InterpLevel] : S \in SUBSET LevelNames}

\* The substitution of a pass: interpolateEnv for "env", interpolateMon for
\* "mon".
substitute(pass, v) ==
    IF pass = "env" THEN interpolateEnv(v) ELSE interpolateMon(v)

\* The three nested range loops of a pass: every option value of the plan
\* is replaced by its substitution.
interpolated(p, pass) ==
    [l \in DOMAIN p |->
       [p[l] EXCEPT !.Collect =
          [d \in DOMAIN p[l].Collect |->
             [p[l].Collect[d] EXCEPT !.Options =
                [k \in DOMAIN p[l].Collect[d].Options |->
                   substitute(pass, p[l].Collect[d].Options[k])]]]]]

\* A plan has been loaded; no collector is involved.
InitInterp ==
    /\ plan = [l \in LevelNames |-> AbsentLevel]
    /\ hbTable = FALSE
    /\ pc = "new"
    /\ todo = {}
    /\ configured = ""
    /\ cleanup = "nil"
    /\ ret = [cleanup |-> "nil", err |-> ErrNil]
    /\ probe = [l \in LevelNames |-> "none"]
    /\ c = NewLag
    /\ readers = <<>>
    /\ running = {}
    /\ out = NoOut
    /\ prev = NoPrev
    /\ interp \in {[pass |-> "loaded", orig |-> p, plan |-> p] :
                      p \in InterpPlans}

\* InterpolateMonitor substituting the environment variables once more.
InterpolateMonitorEnvAgain ==
    /\ interp.pass = "env"
    /\ interp' = [interp EXCEPT
                    !.pass = "mon",
                    !.plan = interpolated(interp.plan, "env")]
    /\ UNCHANGED <<plan, hbTable, pc, todo, configured, cleanup, ret, probe,
                   c, readers, running, out, prev>>

InterpolateEnvVars ==
    /\ interp.pass = "loaded"
    /\ interp' = [interp EXCEPT
                    !.pass = "env",
                    !.plan = interpolated(interp.plan, "env")]
    /\ UNCHANGED <<plan, hbTable, pc, todo, configured, cleanup, ret, probe,
                   c, readers, running, out, prev>>

InterpolateMonitor ==
    /\ interp.pass = "env"
    /\ interp' = [interp EXCEPT
                    !.pass = "mon",
                    !.plan = interpolated(interp.plan, "mon")]
    /\ UNCHANGED <<plan, hbTable, pc, todo, configured, cleanup, ret, probe,
                   c, readers, running, out, prev>>

NextInterp == InterpolateEnvVars \/ InterpolateMonitor

SpecInterp == InitInterp /\ [][NextInterp]_vars

\* ------------------------------------------------- network-latency plans
\* Values of the network-latency option: unset, empty, not a number, zero,
\* positive, negative.
LatencyValues ==
    {NoLatency, Latency(<<>>), Latency(<<"5", "x">>), Latency(<<"0">>),
     Latency(<<"1", "0", "0">>), Latency(<<"-", "5">>)}

\* Plans whose levels set up the heartbeat strategy (writer blip, or no
\* writer and a failing probe) with any network-latency option.
LatencyLevel ==
    {AbsentLevel, OtherLevel} \cup
    {[inPlan |-> TRUE, hasDomain |-> TRUE,
      Options |-> [NoOptions EXCEPT !.writer = w, !.networkLatency = n]] :
        w \in {LAG_WRITER_BLIP, ""}, n \in LatencyValues}

InitLatency ==
    /\ plan \in [LevelNames -> LatencyLevel]
    /\ hbTable \in BOOLEAN
    /\ pc = "new"
    /\ todo = {}
    /\ configured = ""
    /\ cleanup = "nil"
    /\ ret = [cleanup |-> "nil", err |-> ErrNil]
    /\ probe = [l \in LevelNames |-> "none"]
    /\ c = NewLag
    /\ readers = <<>>
    /\ running = {}
    /\ out = NoOut
    /\ prev = NoPrev
    /\ interp = NoInterp

SpecLatency == InitLatency /\ [][Next]_vars

\* ----------------------------------------------------------- properties
\* The levels of the plan that collect repl.lag.
Qualifying == {l \in LevelNames : plan[l].hasDomain}

\* The writer option of a level.
WriterOf(l) == plan[l].Options.writer

\* Prepare has returned and nothing was called since.
JustReturned == pc \in {"ready", "failed"} /\ out = NoOut

\* Every level that collects repl.lag has writer "auto" or no writer.
AutoPlan == Qualifying # {} /\ \A l \in Qualifying : WriterOf(l) \in {"auto", ""}

\* The levels Prepare recorded with the heartbeat writer.
BlipLevels == {l \in LevelNames : c.lagWriterIn[l] = LAG_WRITER_BLIP}

\* C1: when two levels of the plan that collect repl.lag carry different
\* explicit writers (one pfs, one blip), Prepare returns the
\* configuration-conflict error and no sampler is left running, in every
\* iteration order (stated for the runs in which no probe failed, so that
\* no other error can come first).
C1_ConflictRejected ==
    (/\ JustReturned
     /\ \E l1, l2 \in Qualifying :
           WriterOf(l1) = LAG_WRITER_PFS /\ WriterOf(l2) = LAG_WRITER_BLIP
     /\ \A l \in Qualifying : probe[l] # "fail")
    => (ret.err = ErrConflict /\ running = {})

\* C2: when all levels that collect repl.lag carry the same writer option
\* and Prepare returns without error, all of them are recorded with the
\* same writer, so Collect serves them by one strategy.
C2_OneStrategy ==
    (/\ pc = "ready"
     /\ \A l1, l2 \in Qualifying : WriterOf(l1) = WriterOf(l2))
    => /\ \A l1, l2 \in Qualifying : c.lagWriterIn[l1] = c.lagWriterIn[l2]
       /\ out.level \in Qualifying =>
             \A l \in Qualifying : out.via = c.lagWriterIn[l]

\* C3: when Prepare has started the sampler and returns without error, the
\* cleanup it returns is the stop action of that sampler: it is present,
\* and once the caller has invoked it no sampler runs.
C3_CleanupStopsSampler ==
    /\ (pc = "ready" /\ running # {}) => ret.cleanup = "stop"
    /\ pc = "retired" => running = {}

\* C4: at most one heartbeat reader is constructed and at most one sampling
\* task is started, however many levels resolve to the heartbeat writer,
\* and every Collect served by the heartbeat strategy reads that one reader.
C4_OneReader ==
    /\ Len(readers) <= 1
    /\ Cardinality(running) <= 1
    /\ BlipLevels # {} => c.lagReader = 1 /\ Len(readers) = 1
    /\ out.via = LAG_WRITER_BLIP => out.reader = 1

\* C4 witness: two levels are recorded with the heartbeat writer and
\* Collect has read the shared reader.
C4_Witness ==
    /\ pc = "ready"
    /\ Cardinality(BlipLevels) >= 2
    /\ out.via = LAG_WRITER_BLIP
    /\ running = {1}

\* C5: for a plan whose repl.lag levels have writer auto or none, when the
\* performance-schema probe succeeds (for every level), Prepare returns
\* without error, every such level is recorded with the writer pfs, and
\* no heartbeat reader exists: the handle is unset, the cleanup is empty.
C5_AutoDetectsPFS ==
    (/\ pc \in {"ready", "failed"}
     /\ AutoPlan
     /\ \A l \in Qualifying : probe[l] = "ok")
    => /\ pc = "ready"
       /\ ret.err = ErrNil
       /\ \A l \in Qualifying : c.lagWriterIn[l] = LAG_WRITER_PFS
       /\ c.lagReader = 0
       /\ readers = <<>>
       /\ running = {}
       /\ ret.cleanup = "nil"

\* C5 witness: Prepare returned for an auto plan of two levels whose probes
\* succeeded.
C5_Witness ==
    /\ pc = "ready"
    /\ AutoPlan
    /\ Cardinality(Qualifying) >= 2
    /\ \A l \in Qualifying : probe[l] = "ok"
    /\ \E l \in Qualifying : WriterOf(l) = "auto"
    /\ \E l \in Qualifying : WriterOf(l) = ""

\* C6: for a plan whose repl.lag levels have writer auto or none, when the
\* probe fails and the heartbeat table is reachable, the probe's error is
\* not returned: Prepare returns without error, the level whose probe
\* failed is recorded with the writer blip, and exactly one sampler runs.
C6_AutoFallsThrough ==
    (/\ JustReturned
     /\ AutoPlan
     /\ hbTable
     /\ \E l \in Qualifying : probe[l] = "fail")
    => /\ pc = "ready"
       /\ ret.err = ErrNil
       /\ \A l \in Qualifying :
             probe[l] = "fail" => c.lagWriterIn[l] = LAG_WRITER_BLIP
       /\ Cardinality(running) = 1
       /\ c.lagReader \in running

\* C6 witness: Prepare returned for an auto plan whose probe failed while
\* the heartbeat table is reachable.
C6_Witness ==
    /\ JustReturned
    /\ AutoPlan
    /\ hbTable
    /\ \A l \in Qualifying : probe[l] = "fail"
    /\ running = {1}

\* C7: for a plan whose repl.lag levels have writer auto or none, when the
\* probe fails and the heartbeat table is not reachable, Prepare returns
\* the auto-detect error and no sampler runs.
C7_AutoDetectExhausted ==
    (/\ JustReturned
     /\ AutoPlan
     /\ ~hbTable
     /\ \A l \in Qualifying : probe[l] \in {"fail", "none"}
     /\ \E l \in Qualifying : probe[l] = "fail")
    => (ret.err = ErrAutoDetect /\ running = {})

\* The sample of the last Collect says that the instance is not a replica.
NotAReplicaSample ==
    /\ out.via \in {LAG_WRITER_BLIP, LAG_WRITER_PFS}
    /\ out.sample.failed = ""
    /\ ~out.sample.Replica

\* C8: for a sample that is not from a replica, Collect returns no metric
\* and no error when the level's report-not-a-replica option is "no" or
\* unset, and exactly one GAUGE metric "current" of value -1 when it is
\* "yes", whatever lag value the sample carries, for both strategies.
C8_NotAReplicaPolicy ==
    NotAReplicaSample =>
       LET opt == plan[out.level].Options.reportNotAReplica IN
       /\ out.err = ErrNil
       /\ opt \in {"no", ""} => out.metrics = <<>>
       /\ opt = "yes" =>
             /\ Len(out.metrics) = 1
             /\ out.metrics[1].Name = "current"
             /\ out.metrics[1].Type = "GAUGE"
             /\ out.metrics[1].Value = -1

\* The plan of the scenario: one level, which collects repl.lag with the
\* single option writer = pfs; its probe failed and there is no heartbeat
\* table.
C9_Scenario ==
    /\ JustReturned
    /\ Cardinality({l \in LevelNames : plan[l].inPlan}) = 1
    /\ \E l \in Qualifying :
          /\ plan[l].Options = [NoOptions EXCEPT !.writer = LAG_WRITER_PFS]
          /\ probe[l] = "fail"
    /\ ~hbTable

\* Prepare recorded no writer and started no sampler.
C9_NothingSetUp ==
    /\ \A l \in LevelNames : c.lagWriterIn[l] = ""
    /\ c.lagReader = 0
    /\ readers = <<>>
    /\ running = {}

\* C9 as stated: in the scenario Prepare returns the auto-detect error,
\* records no strategy and starts no sampler.
C9_AutoDetectError ==
    C9_Scenario => (pc = "failed" /\ ret.err = ErrAutoDetect /\ C9_NothingSetUp)

\* C9 amended: in the scenario Prepare returns the error of the
\* performance-schema probe itself (not the auto-detect error), records no
\* strategy and starts no sampler.
C9_ProbeError ==
    C9_Scenario =>
       /\ pc = "failed"
       /\ ret.err = ErrProbe
       /\ ret.cleanup = "nil"
       /\ C9_NothingSetUp

\* C9 witness: the scenario has happened.
C9_Witness == C9_Scenario /\ ret.err # ErrNil

\* C10: Collect for a level name without a recorded writer (a level absent
\* from the plan, or one that does not collect repl.lag) panics: it returns
\* neither metrics nor an error.
C10_UnknownLevelPanics ==
    /\ \A l \in LevelNames : ~plan[l].hasDomain => c.lagWriterIn[l] = ""
    /\ (out.level \in LevelNames /\ c.lagWriterIn[out.level] = "")
       => /\ pc = "panic"
          /\ out.via = "panic"
          /\ out.metrics = <<>>
          /\ out.err = ErrNil

\* C10 witness: Collect was called for a level that is not in the plan while
\* another level is served.
C10_Witness ==
    /\ pc = "panic"
    /\ out.level \in LevelNames
    /\ ~plan[out.level].inPlan
    /\ \E l \in LevelNames : c.lagWriterIn[l] # ""

\* The levels Prepare recorded with a writer.
RecordedLevels == {l \in LevelNames : c.lagWriterIn[l] # ""}

\* C11: a Collect call, whether it returns metrics, drops the sample, fails
\* or panics, leaves the reconciliation state unchanged (the writer map, the
\* drop flags, the repl-check value, the reader handle, the readers and
\* their tasks), and its result is the one its level's recorded writer and
\* flags give for the sample read, whatever the calls before it returned.
C11_CollectReadsOnly ==
    [][(pc = "ready" /\ pc' # "retired")
       => /\ c' = c
          /\ readers' = readers
          /\ running' = running
          /\ ret' = ret
          /\ out'.via = (IF c.lagWriterIn[out'.level] \in
                               {LAG_WRITER_BLIP, LAG_WRITER_PFS}
                         THEN c.lagWriterIn[out'.level] ELSE "panic")
          /\ (out'.via = LAG_WRITER_BLIP /\ out'.sample.failed = "")
             => out'.metrics =
                   IF \/ ~out'.sample.Replica
                         /\ c.dropNotAReplica[out'.level]
                      \/ out'.sample.Replica
                         /\ out'.sample.Milliseconds = -1
                         /\ c.dropNoHeartbeat[out'.level]
                   THEN <<>>
                   ELSE <<MetricValue(out'.sample.Milliseconds, SourceId)>>
      ]_vars

\* C11 witness: with two levels recorded, a Collect call for one of them
\* has failed on its sample and the collector is still ready.
C11_Witness ==
    /\ pc = "ready"
    /\ Cardinality(RecordedLevels) >= 2
    /\ out.level \in RecordedLevels
    /\ out.err = ErrSample

\* The network-latency option of the level whose prepareBlip call
\* constructed reader i.
LatencyOptionOf(i) == plan[readers[i].Level].Options.networkLatency

\* C13: when the network-latency option is set but is not a number, Prepare
\* does not fail and the reader is constructed with the default network
\* latency of 50 ms, as it is when the option is unset.
C13_UnparsableLatencyDefault ==
    /\ pc # "failed"
    /\ \A i \in 1..Len(readers) :
          (LatencyOptionOf(i).ok /\ Atoi(LatencyOptionOf(i).s).err)
          => /\ readers[i].NetworkLatency = 50
             /\ readers[i].NetworkLatency = netLatency(NoOptions)

\* C13 witness: Prepare returned after constructing the reader for a level
\* whose network-latency option is "5x".
C13_Witness ==
    /\ pc = "ready"
    /\ Len(readers) = 1
    /\ LatencyOptionOf(1) = Latency(<<"5", "x">>)
    /\ running = {1}

\* C17: the network latency the reader is constructed with is never
\* negative, whatever the network-latency option is.
C17_LatencyNonNegative ==
    \A i \in 1..Len(readers) : readers[i].NetworkLatency >= 0

\* The sample of the last Collect is from a replica that has seen no
\* heartbeat yet.
NoHeartbeatSample ==
    /\ out.via = LAG_WRITER_BLIP
    /\ out.sample.failed = ""
    /\ out.sample.Replica
    /\ out.sample.Milliseconds = -1

\* C14: for every level served by the heartbeat strategy, a replica sample
\* of lag -1 gives no metric when the level's report-no-heartbeat option is
\* "no" or unset, and one metric of value -1 when it is "yes".
C14_NoHeartbeatPolicy ==
    NoHeartbeatSample =>
       LET opt == plan[out.level].Options.reportNoHeartbeat IN
       /\ out.err = ErrNil
       /\ opt \in {"no", ""} => out.metrics = <<>>
       /\ opt = "yes" =>
             /\ Len(out.metrics) = 1
             /\ out.metrics[1].Value = -1

\* C15: the replica check every reader is constructed with is the
\* sanitized repl-check option of the level it was constructed for; a
\* repl-check that is set is not replaced by the empty value.
C15_ReaderReplCheck ==
    \A i \in 1..Len(readers) :
       readers[i].ReplCheck =
          CleanObjectName(plan[readers[i].Level].Options.replCheck)

\* C16: one Prepare runs the performance-schema probe at most once; the
\* levels after the first one that collects repl.lag are not probed.
C16_ProbeOnce ==
    Cardinality({l \in LevelNames : probe[l] # "none"}) <= 1

\* C19: when Prepare returns an error, no sampler it started is running
\* unless the caller got the cleanup that stops it.
C19_NoSamplerAfterError ==
    pc = "failed" => (running = {} \/ ret.cleanup = "stop")

\* C20: once Prepare has returned without error, every level that collects
\* repl.lag is recorded with the writer pfs or blip, every level recorded
\* with blip has a constructed reader, and Collect for such a level does not
\* panic.
C20_WritersResolved ==
    pc \in {"ready", "retired", "panic"} =>
       /\ \A l \in Qualifying :
             /\ c.lagWriterIn[l] \in {LAG_WRITER_PFS, LAG_WRITER_BLIP}
             /\ c.lagWriterIn[l] = LAG_WRITER_BLIP
                => c.lagReader \in 1..Len(readers)
       /\ out.level \in Qualifying
          => (out.via = c.lagWriterIn[out.level] /\ pc # "panic")

\* C20 witness: Prepare returned for a plan with a level without writer
\* option and a level with writer auto, at least one of them detected as
\* blip, and Collect has served one of them.
C20_Witness ==
    /\ pc = "ready"
    /\ \E l \in Qualifying : WriterOf(l) = ""
    /\ \E l \in Qualifying : WriterOf(l) = "auto"
    /\ BlipLevels # {}
    /\ out.level \in Qualifying

\* The second of two Prepare runs on fresh collectors has returned.
SecondReturned == prev.run /\ pc \in {"ready", "failed"}

\* C18 as stated: two Prepare runs on fresh collectors with the same plan
\* and the same probe verdicts, in any two iteration orders, succeed or fail
\* alike and end with the same level-to-writer mapping.
C18_SameMapping ==
    SecondReturned =>
       /\ (pc = "ready") = prev.ok
       /\ c.lagWriterIn = prev.lagWriterIn

\* C18 amended: the two runs succeed or fail alike, and when they succeed
\* they end with the same level-to-writer mapping.
C18_SameMappingOnSuccess ==
    SecondReturned =>
       /\ (pc = "ready") = prev.ok
       /\ prev.ok => c.lagWriterIn = prev.lagWriterIn

\* C18 witness: both runs succeeded for a plan of two levels that were
\* resolved to different writers after a probe.
C18_Witness ==
    /\ SecondReturned
    /\ prev.ok
    /\ pc = "ready"
    /\ \E l1, l2 \in Qualifying :
          /\ c.lagWriterIn[l1] = LAG_WRITER_PFS
          /\ c.lagWriterIn[l2] = LAG_WRITER_BLIP
          /\ WriterOf(l2) \in {"auto", ""}
          /\ probe[l2] = "fail"

\* The plans p and q have the same level names, and per level the same
\* frequency and domain names, and per domain the same name, metric list
\* and option keys.
SameShape(p, q) ==
    /\ DOMAIN p = DOMAIN q
    /\ \A l \in DOMAIN p :
          /\ p[l].Freq = q[l].Freq
          /\ DOMAIN p[l].Collect = DOMAIN q[l].Collect
          /\ \A d \in DOMAIN p[l].Collect :
                /\ p[l].Collect[d].Name = q[l].Collect[d].Name
                /\ p[l].Collect[d].Metrics = q[l].Collect[d].Metrics
                /\ DOMAIN p[l].Collect[d].Options
                      = DOMAIN q[l].Collect[d].Options

\* The option values of the plan under interpolation at the places given.
OptionNow(l, d, k) == interp.plan[l].Collect[d].Options[k]
OptionThen(l, d, k) == interp.orig[l].Collect[d].Options[k]

\* C12: after InterpolateEnvVars every option value is interpolateEnv of
\* the loaded value, after InterpolateMonitor it is interpolateMon of that,
\* each function applied once; level names, frequencies, domain names,
\* metric lists and option keys are as loaded.
C12_InterpolationFrame ==
    interp.pass # "none" =>
       /\ SameShape(interp.plan, interp.orig)
       /\ \A l \in DOMAIN interp.orig :
          \A d \in DOMAIN interp.orig[l].Collect :
          \A k \in DOMAIN interp.orig[l].Collect[d].Options :
             /\ interp.pass = "loaded"
                => OptionNow(l, d, k) = OptionThen(l, d, k)
             /\ interp.pass = "env"
                => OptionNow(l, d, k) = interpolateEnv(OptionThen(l, d, k))
             /\ interp.pass = "mon"
                => OptionNow(l, d, k) =
                      interpolateMon(interpolateEnv(OptionThen(l, d, k)))

\* C12 witness: both passes ran over a plan of two levels in which one
\* option was changed by both passes and another by the first pass only.
C12_Witness ==
    /\ interp.pass = "mon"
    /\ Cardinality(DOMAIN interp.orig) >= 2
    /\ \E l \in DOMAIN interp.orig :
          /\ DOMAIN interp.orig[l].Collect = DomainNames
          /\ DOMAIN interp.orig[l].Collect["repl.lag"].Options = OptionKeys
          /\ OptionThen(l, "repl.lag", "writer") = "${E}"
          /\ OptionNow(l, "repl.lag", "writer") = "m1"
          /\ OptionThen(l, "repl.lag", "table") = "${E2}"
          /\ OptionNow(l, "repl.lag", "table") = "${E}"

====
